---- MODULE Spec2Model ----
(***************************************************************************)
(* A model of cmaze (src/cmaze.c): the grid, the maze generator, the five  *)
(* solver strategies and the solve controller (background thread, monitor  *)
(* and cancellation), together with the GUI handlers of src/gtk_maze.c     *)
(* that call them.                                                         *)
(*                                                                         *)
(* Scaling.  The program clamps the grid to 21..499 rows and columns and   *)
(* removes MAX(rows, cols) walls of a difficult maze.  Such grids are far  *)
(* beyond an exhaustive search, so the model keeps the code of the clamp   *)
(* and of the generator but runs it with smaller limits: the smallest grid *)
(* has 2 * MinHalf + 1 rows and columns (odd, as 21 is), the largest has   *)
(* two more columns, and a difficult maze has at most MaxRemovals walls    *)
(* removed (a grid this small has not MAX(rows, cols) removable walls).    *)
(***************************************************************************)
EXTENDS Integers, Sequences, FiniteSets, TLC

(* ------------------------------ bounds -------------------------------- *)
\* Half the size of the smallest grid: MAZE_MIN_ROWS = 2 * MinHalf + 1.
MinHalf == 2
\* The number of walls a difficult maze has removed, at most.
MaxRemovals == 1
\* The number of worker threads one behaviour creates, at most.
MaxThreads == 2
\* The number of calls a client makes in one behaviour, at most.
MaxCalls == 4
\* The width of an int, scaled as the grid is: a path of the largest grid
\* is counted without overflow.
IntBits == 6

(* --------------------------- cmaze.h ---------------------------------- *)
MAZE_MIN_ROWS == 2 * MinHalf + 1
MAZE_MIN_COLS == 2 * MinHalf + 1
MAZE_MAX_ROWS == MAZE_MIN_ROWS
MAZE_MAX_COLS == MAZE_MIN_COLS + 2

SOLVER_CB_REASON_RUNNING == "Running"
SOLVER_CB_REASON_SOLVED == "Solved"
SOLVER_CB_REASON_CANCELED == "Canceled"

SOLVER_BFS == "BFS"
SOLVER_DFS == "DFS"
SOLVER_A_STAR == "A_STAR"
SOLVER_ALWAYS_TURN_LEFT == "ALWAYS_TURN_LEFT"
SOLVER_ALWAYS_TURN_RIGHT == "ALWAYS_TURN_RIGHT"
SolverAlgorithm ==
    {SOLVER_BFS, SOLVER_DFS, SOLVER_A_STAR, SOLVER_ALWAYS_TURN_LEFT,
     SOLVER_ALWAYS_TURN_RIGHT}

CELL_TYPE_EMPTY == "Empty"
CELL_TYPE_WALL == "Wall"
CELL_TYPE_END == "End"
CELL_TYPE_START == "Start"
CELL_TYPE_PATH_HEAD == "PathHead"
CELL_TYPE_PATH_VISITED == "PathVisited"
CELL_TYPE_PATH_SOLUTION == "PathSolution"
CellType ==
    {CELL_TYPE_EMPTY, CELL_TYPE_WALL, CELL_TYPE_END, CELL_TYPE_START,
     CELL_TYPE_PATH_HEAD, CELL_TYPE_PATH_VISITED, CELL_TYPE_PATH_SOLUTION}

\* A null pointer: no cell, no parent.  A cell is named by <<row, col>>.
NULL == <<>>

(* --------------------------- state ------------------------------------ *)
VARIABLES
    num_rows,          \* struct Maze
    num_cols,
    board,             \* <<row, col>> -> [type, value, parent]
    board_size,        \* cells allocated for board, 0 when board is NULL
    freed,             \* the last maze_create called g_free(maze->board)
    difficult,
    solver_running,
    solver_cancel,
    solver_thread,     \* the id of a worker thread, 0 for NULL
    solver_algorithm,
    path_len,
    start_cell,
    end_cell,
    mpc,               \* where the main thread is
    ret,               \* what the last call of the main thread returned
    stack,             \* maze_create: the carving stack
    round,             \* maze_create: the round of wall removal (its i)
    calls,             \* the calls the client has made so far
    noted,             \* the client's note of a solve: <<algorithm, path_len>>
    sv,                \* solver id -> the locals of its maze_solve
    mon,               \* worker id -> where its monitor source is
    cb,                \* worker id -> the reasons its monitor delivered
    joined,            \* worker id -> the times it was joined
    canceled           \* the workers that ran when cancellation was asked

maze_vars ==
    <<num_rows, num_cols, board, board_size, freed, difficult, start_cell,
      end_cell>>
ctl_vars ==
    <<solver_running, solver_cancel, solver_thread, solver_algorithm, path_len>>
gen_vars == <<stack, round>>
mon_vars == <<mon, cb, joined, canceled>>
thr_vars == <<sv, mon_vars>>
vars ==
    <<maze_vars, ctl_vars, gen_vars, thr_vars, mpc, ret, calls, noted>>

(* --------------------------- helpers ---------------------------------- *)
MAX(a, b) == IF a > b THEN a ELSE b

\* An int after an addition: it wraps at the width, as the build's does.
INT_MAX == 2 ^ (IntBits - 1) - 1
IntWrap(n) == IF n > INT_MAX THEN n - 2 ^ IntBits ELSE n

abs(x) == IF x < 0 THEN -x ELSE x

\* The cells of a grid of R rows and C columns.
Pos(R, C) == (0 .. R - 1) \X (0 .. C - 1)

\* cell + n, for an offset n = <<d_row, d_col>>.
Off(cell, n) == <<cell[1] + n[1], cell[2] + n[2]>>

\* The offset arrays of the code are 0-based.
At(arr, i) == arr[i + 1]

maze_get_cell(row, col) ==
    IF row < 0 \/ row >= num_rows \/ col < 0 \/ col >= num_cols
    THEN NULL
    ELSE <<row, col>>

\* cell_is_wall on a board b (the code's board at some point of a step).
cell_is_wall_on(b, row, col) ==
    LET cell == maze_get_cell(row, col)
    IN  IF cell # NULL THEN b[cell].type = CELL_TYPE_WALL ELSE TRUE

cell_is_wall(row, col) == cell_is_wall_on(board, row, col)

cell_cmp(c1, c2) ==
    IF c1[1] < c2[1] THEN -1
    ELSE IF c1[1] > c2[1] THEN 1
    ELSE IF c1[2] < c2[2] THEN -1
    ELSE IF c1[2] > c2[2] THEN 1
    ELSE 0

cell_distance(cell1, cell2) ==
    abs(cell1[1] - cell2[1]) + abs(cell1[2] - cell2[2])

\* A perimeter test that forgets the last row and the last column.
maze_cell_is_perimeter_topleft(cell) == cell[1] = 0 \/ cell[2] = 0

maze_cell_is_perimeter(cell) ==
    \/ cell[1] = 0
    \/ cell[2] = 0
    \/ cell[1] >= num_rows - 1
    \/ cell[2] >= num_cols - 1

\* The board b after maze_cell_reset(maze, cell).
maze_cell_reset(b, cell) ==
    IF cell = NULL THEN b
    ELSE IF maze_cell_is_perimeter(cell)
    THEN [b EXCEPT ![cell].type = CELL_TYPE_WALL]
    ELSE IF b[cell].type # CELL_TYPE_WALL
    THEN [b EXCEPT ![cell].type = CELL_TYPE_EMPTY]
    ELSE b

(* --------------------------- maze_alloc ------------------------------- *)
\* The heap cells of a solver: live holds what cell_new has allocated and
\* g_free has not freed, faults counts the calls of g_free with a cell that
\* is not live.
NoHeap == [live |-> {}, faults |-> 0]

NoLocals ==
    [pc |-> "none", algo |-> SOLVER_BFS, list |-> <<>>, closed |-> <<>>,
     node |-> NULL, cell |-> NULL, orientation |-> 0, value |-> 0,
     head_cells |-> <<>>, err |-> 0, heap |-> NoHeap]

Solvers == 0 .. MaxThreads
Workers == 1 .. MaxThreads

\* g_malloc0 and, in main, maze_set_solver_algorithm(maze, SOLVER_A_STAR).
Init ==
    /\ num_rows = 0
    /\ num_cols = 0
    /\ board = <<>>
    /\ board_size = 0
    /\ freed = FALSE
    /\ difficult = FALSE
    /\ solver_running = FALSE
    /\ solver_cancel = FALSE
    /\ solver_thread = 0
    /\ solver_algorithm = SOLVER_A_STAR
    /\ path_len = 0
    /\ start_cell = NULL
    /\ end_cell = NULL
    /\ mpc = "idle"
    /\ ret = 0
    /\ stack = <<>>
    /\ round = 0
    /\ calls = 0
    /\ noted = NULL
    /\ sv = [t \in Solvers |-> NoLocals]
    /\ mon = [t \in Workers |-> "none"]
    /\ cb = [t \in Workers |-> {}]
    /\ joined = [t \in Workers |-> 0]
    /\ canceled = {}

\* The main thread is free and the client makes one more call.
Called ==
    /\ mpc = "idle"
    /\ calls < MaxCalls
    /\ calls' = calls + 1
    /\ noted' = noted

(* --------------------------- maze_create ------------------------------ *)
\* A clamp that leaves an even value as it is.
Clamp_even(n, lo, hi) == IF n < lo THEN lo ELSE IF n > hi THEN hi ELSE n

\* The clamp of one dimension: below the minimum, above the maximum, even.
Clamp(n, lo, hi) ==
    IF n < lo THEN lo
    ELSE IF n > hi THEN hi
    ELSE IF n % 2 = 0 THEN n + 1
    ELSE n

\* A generator that leaves open every cell with one odd coordinate.
InitBoard_or(R, C) ==
    [p \in Pos(R, C) |->
        [type |-> IF p[1] % 2 = 1 \/ p[2] % 2 = 1
                  THEN CELL_TYPE_EMPTY ELSE CELL_TYPE_WALL,
         value |-> 0,
         parent |-> NULL]]

\* The board after memset and the loop that sets row, col and type.
InitBoard(R, C) ==
    [p \in Pos(R, C) |->
        [type |-> IF p[1] % 2 = 1 /\ p[2] % 2 = 1
                  THEN CELL_TYPE_EMPTY ELSE CELL_TYPE_WALL,
         value |-> 0,
         parent |-> NULL]]

\* A seed that is not rounded down to an even number before the + 1.
SeedCell_any(x, y, R, C) == <<(x % (R - 2)) + 1, (y % (C - 2)) + 1>>


\* The carving seed for the draws x and y of random().
SeedCell(x, y, R, C) ==
    <<((x % (R - 2)) \div 2) * 2 + 1, ((y % (C - 2)) \div 2) * 2 + 1>>

\* The number of rounds of the removal loop.  The code runs
\* MAX(num_rows, num_cols) rounds; the grids here are too small to hold as
\* many removable walls, so the model stops at MaxRemovals.
RemovalRounds ==
    IF MAX(num_rows, num_cols) < MaxRemovals
    THEN MAX(num_rows, num_cols) ELSE MaxRemovals

carve_neighbours == <<<<-2, 0>>, <<0, 2>>, <<2, 0>>, <<0, -2>>>>
carve_walls == <<<<-1, 0>>, <<0, 1>>, <<1, 0>>, <<0, -1>>>>

\* The first i in 0..3 whose neighbour (i + r) % 4 of cell is in the grid
\* and not visited; 4 when there is none.
CarveDir(cell, r) ==
    LET ok(i) ==
            LET n == Off(cell, At(carve_neighbours, (i + r) % 4))
                n_cell == maze_get_cell(n[1], n[2])
            IN  n_cell # NULL /\ board[n_cell].value # 1
    IN  IF \E i \in 0 .. 3 : ok(i)
        THEN CHOOSE i \in 0 .. 3 : ok(i) /\ \A j \in 0 .. i - 1 : ~ok(j)
        ELSE 4

\* A generator that puts End in the corner of the grid.
PlaceStartEnd_corner(b, R, C) ==
    [b EXCEPT ![<<1, 0>>].type = CELL_TYPE_START,
              ![<<R - 1, C - 1>>].type = CELL_TYPE_END]

\* A generator that types as End the cell left of the last column.
PlaceStartEnd_inside(b, R, C) ==
    [b EXCEPT ![<<1, 0>>].type = CELL_TYPE_START,
              ![<<R - 2, C - 2>>].type = CELL_TYPE_END]


\* start_cell and end_cell once the carving stack is empty.
PlaceStartEnd(b, R, C) ==
    [b EXCEPT ![<<1, 0>>].type = CELL_TYPE_START,
              ![<<R - 2, C - 1>>].type = CELL_TYPE_END]

\* maze_create up to the first test of the carving loop.
maze_create(rows, cols, diff) ==
    /\ Called
    /\ IF solver_running
       THEN /\ ret' = -1
            /\ UNCHANGED <<maze_vars, ctl_vars, gen_vars, thr_vars, mpc>>
       ELSE LET R == Clamp(rows, MAZE_MIN_ROWS, MAZE_MAX_ROWS)
                C == Clamp(cols, MAZE_MIN_COLS, MAZE_MAX_COLS)
                b == InitBoard(R, C)
            IN  \E x \in 0 .. R - 3, y \in 0 .. C - 3 :
                  LET cell == SeedCell(x, y, R, C)
                  IN  /\ num_rows' = R
                      /\ num_cols' = C
                      /\ difficult' = diff
                      /\ freed' = (board_size # 0
                                    /\ num_rows * num_cols < R * C)
                      /\ board_size' =
                            IF board_size = 0 \/ num_rows * num_cols < R * C
                            THEN R * C ELSE board_size
                      /\ IF cell \notin Pos(R, C)
                            \/ b[cell].type = CELL_TYPE_WALL
                         THEN /\ board' = b
                              /\ stack' = <<>>
                              /\ mpc' = "idle"
                              /\ ret' = -1
                         ELSE /\ board' = [b EXCEPT ![cell].value = 1]
                              /\ stack' = <<cell>>
                              /\ mpc' = "carve"
                              /\ ret' = ret
                      /\ UNCHANGED <<start_cell, end_cell, round, ctl_vars,
                                     thr_vars>>

\* One round of the carving loop; the last one sets start_cell and end_cell
\* and returns unless the maze is difficult.
maze_create_carve ==
    /\ mpc = "carve"
    /\ UNCHANGED <<calls, noted>>
    /\ \E r \in 0 .. 3 :
         LET cell == Head(stack)
             i == CarveDir(cell, r)
         IN  IF i < 4
             THEN LET n_cell == Off(cell, At(carve_neighbours, (i + r) % 4))
                      w_cell == Off(cell, At(carve_walls, (i + r) % 4))
                  IN  /\ stack' = <<n_cell>> \o stack
                      /\ board' = [board EXCEPT
                                      ![n_cell].value = 1,
                                      ![w_cell].value = 1,
                                      ![w_cell].type = CELL_TYPE_EMPTY]
                      /\ UNCHANGED <<start_cell, end_cell, round, mpc, ret>>
             ELSE /\ stack' = Tail(stack)
                  /\ IF Tail(stack) # <<>>
                     THEN UNCHANGED <<board, start_cell, end_cell, round, mpc,
                                      ret>>
                     ELSE /\ board' = PlaceStartEnd(board, num_rows, num_cols)
                          /\ start_cell' = <<1, 0>>
                          /\ end_cell' = <<num_rows - 2, num_cols - 1>>
                          /\ round' = 0
                          /\ IF difficult
                             THEN mpc' = "remove" /\ ret' = ret
                             ELSE mpc' = "idle" /\ ret' = 0
    /\ UNCHANGED <<num_rows, num_cols, board_size, freed, difficult, ctl_vars,
                   thr_vars>>

\* A test that skips the wall unless one of its vertical neighbours is a
\* wall.
RemovableWall_corner(row, col) ==
    /\ cell_is_wall(row, col)
    /\ LET w(rr, cc) == IF cell_is_wall(rr, cc) THEN 1 ELSE 0
           r == w(row - 1, col) + w(row + 1, col)
       IN  /\ r = 1
           /\ r + w(row, col - 1) + w(row, col + 1) = 2


\* A test that takes any wall with two walls among its four neighbours.
RemovableWall_any(row, col) ==
    /\ cell_is_wall(row, col)
    /\ LET w(rr, cc) == IF cell_is_wall(rr, cc) THEN 1 ELSE 0
       IN  w(row - 1, col) + w(row + 1, col)
             + w(row, col - 1) + w(row, col + 1) = 2


\* Whether the removal loop takes the wall it drew.
RemovableWall(row, col) ==
    /\ cell_is_wall(row, col)
    /\ LET w(rr, cc) == IF cell_is_wall(rr, cc) THEN 1 ELSE 0
           r == w(row - 1, col) + w(row + 1, col)
       IN  /\ r # 1
           /\ r + w(row, col - 1) + w(row, col + 1) = 2

\* One draw of the removal loop: a wall that is not taken is drawn again.
maze_create_remove ==
    /\ mpc = "remove"
    /\ UNCHANGED <<calls, noted>>
    /\ \E x \in 0 .. num_rows - 3, y \in 0 .. num_cols - 3 :
         LET row == x + 1
             col == y + 1
         IN  IF RemovableWall(row, col)
             THEN /\ board' = [board EXCEPT
                                  ![<<row, col>>].type = CELL_TYPE_EMPTY]
                  /\ round' = round + 1
                  /\ IF round + 1 < RemovalRounds
                     THEN mpc' = mpc /\ ret' = ret
                     ELSE mpc' = "idle" /\ ret' = 0
             ELSE UNCHANGED <<board, round, mpc, ret>>
    /\ UNCHANGED <<num_rows, num_cols, board_size, freed, difficult, start_cell,
                   end_cell, stack, ctl_vars, thr_vars>>

\* The calls of maze_create a client makes.
ReqRows == MAZE_MIN_ROWS - 1 .. MAZE_MAX_ROWS + 1
ReqCols == MAZE_MIN_COLS - 1 .. MAZE_MAX_COLS + 1

Create ==
    \E rows \in ReqRows, cols \in ReqCols, diff \in BOOLEAN :
        maze_create(rows, cols, diff)

NextCreate == Create \/ maze_create_carve \/ maze_create_remove

\* The generator alone: mazes are created one after the other.
SpecCreate == Init /\ [][NextCreate]_vars

\* A draw of the removal loop that takes the wall it drew.
maze_create_clear == maze_create_remove /\ board' # board

\* The generator with a fair random(): the loop of lines 893-917 draws
\* until it has a removable wall, and a fair sequence of draws does not
\* miss the removable walls for ever.
SpecRemove == SpecCreate /\ WF_vars(maze_create_clear)


(* ------------------- start and end relocation, clear ------------------ *)
\* main creates the maze before it hands it to anything else.
Created == board_size # 0 /\ start_cell # NULL

four_neighbours == <<<<-1, 0>>, <<0, 1>>, <<1, 0>>, <<0, -1>>>>

\* A test of the target that does not look at solver_running.
maze_get_cell_for_start_or_end_busy(row, col) ==
    LET cell == maze_get_cell(row, col)
    IN  IF cell = NULL THEN NULL
        ELSE IF board[cell].type = CELL_TYPE_WALL
        THEN IF maze_cell_is_perimeter(cell)
                /\ \E i \in 0 .. 3 :
                      ~cell_is_wall(cell[1] + At(four_neighbours, i)[1],
                                    cell[2] + At(four_neighbours, i)[2])
             THEN cell
             ELSE NULL
        ELSE cell

\* The cell the call may take, NULL when it is refused.
maze_get_cell_for_start_or_end(row, col) ==
    LET cell == maze_get_cell(row, col)
    IN  IF solver_running THEN NULL
        ELSE IF cell = NULL THEN NULL
        ELSE IF board[cell].type = CELL_TYPE_WALL
        THEN IF ~maze_cell_is_perimeter(cell) THEN NULL
             ELSE IF \E i \in 0 .. 3 :
                        LET n == Off(cell, At(four_neighbours, i))
                            n_cell == maze_get_cell(n[1], n[2])
                        IN  n_cell # NULL
                            /\ board[n_cell].type # CELL_TYPE_WALL
                  THEN cell
                  ELSE NULL
        ELSE cell

maze_set_end_cell(row, col) ==
    /\ Called
    /\ Created
    /\ LET cell == maze_get_cell_for_start_or_end(row, col)
       IN  IF cell = NULL
           THEN /\ ret' = -1
                /\ UNCHANGED <<board, end_cell>>
           ELSE /\ ret' = 0
                /\ end_cell' = cell
                /\ board' = [maze_cell_reset(board, end_cell) EXCEPT
                                ![cell].type = CELL_TYPE_END]
    /\ UNCHANGED <<num_rows, num_cols, board_size, freed, difficult, start_cell,
                   ctl_vars, gen_vars, thr_vars, mpc>>

maze_set_start_cell(row, col) ==
    /\ Called
    /\ Created
    /\ LET cell == maze_get_cell_for_start_or_end(row, col)
       IN  IF cell = NULL
           THEN /\ ret' = -1
                /\ UNCHANGED <<board, start_cell>>
           ELSE /\ ret' = 0
                /\ start_cell' = cell
                /\ board' = [maze_cell_reset(board, start_cell) EXCEPT
                                ![cell].type = CELL_TYPE_START]
    /\ UNCHANGED <<num_rows, num_cols, board_size, freed, difficult, end_cell,
                   ctl_vars, gen_vars, thr_vars, mpc>>

\* The board b after _maze_clear_board.
_maze_clear_board(b) ==
    LET cleared ==
            [p \in DOMAIN b |->
                [type |-> IF b[p].type # CELL_TYPE_WALL
                          THEN CELL_TYPE_EMPTY ELSE CELL_TYPE_WALL,
                 value |-> 0,
                 parent |-> NULL]]
        started == [cleared EXCEPT ![start_cell].type = CELL_TYPE_START]
    IN  [started EXCEPT ![end_cell].type = CELL_TYPE_END]

maze_clear_board ==
    /\ Called
    /\ Created
    /\ board' = IF solver_running THEN board ELSE _maze_clear_board(board)
    /\ UNCHANGED <<num_rows, num_cols, board_size, freed, difficult, start_cell,
                   end_cell, ctl_vars, gen_vars, thr_vars, mpc, ret>>

maze_set_solver_algorithm(algo) == solver_algorithm' = algo

(* --------------------------- maze_solve ------------------------------- *)
ORIENTATION_EAST == 1
HEAD_QUEUE_LENGTH == 50

\* What a solver step leaves alone.
solve_frame ==
    <<num_rows, num_cols, board_size, freed, difficult, start_cell, end_cell,
      solver_cancel, solver_thread, gen_vars, mon_vars>>

\* The locals of solver t move on.
Goes(t, locals) ==
    /\ sv' = [sv EXCEPT ![t] = locals]
    /\ UNCHANGED <<solver_running, mpc, ret>>

\* The strategy of solver t returns err and maze_solve ends: it clears
\* solver_running and returns; solver 0 runs on the main thread.  Of the
\* locals only the cell the strategy stopped at is kept.
Returns(t, locals, err) ==
    /\ sv' = [sv EXCEPT ![t] = [NoLocals EXCEPT !.pc = "done", !.err = err,
                                                !.algo = locals.algo,
                                                !.cell = locals.cell,
                                                !.heap = locals.heap]]
    /\ solver_running' = FALSE
    /\ IF t = 0
       THEN mpc' = "idle" /\ ret' = err
       ELSE UNCHANGED <<mpc, ret>>

\* A null pointer is dereferenced: the process ends.
Crashes(t, locals) ==
    /\ sv' = [sv EXCEPT ![t] = [locals EXCEPT !.pc = "crashed"]]
    /\ mpc' = "crashed"
    /\ UNCHANGED <<solver_running, ret>>

\* The heap cell of cell_new with its fields set; parent holds the cells of
\* the parent links, nearest first.
cell_new(row, col, value, heuristic, parent) ==
    [row |-> row, col |-> col, value |-> value, heuristic |-> heuristic,
     parent |-> parent]

CellOf(node) == <<node.row, node.col>>

\* g_malloc0 in cell_new: the heap cell is live.
g_malloc0(heap, node) == [heap EXCEPT !.live = @ \cup {node}]

\* GLib: the heap cell is live no more; a cell that was not is a fault.
g_free(heap, node) ==
    IF node \in heap.live
    THEN [heap EXCEPT !.live = @ \ {node}]
    ELSE [heap EXCEPT !.faults = @ + 1]

RECURSIVE g_list_free_full(_, _)
\* GLib: g_free for every element of list.
g_list_free_full(heap, list) ==
    IF list = <<>> THEN heap
    ELSE g_list_free_full(g_free(heap, Head(list)), Tail(list))

\* The locals of a strategy before its loop, on the cleared board b.
Prologue(algo, b) ==
    IF algo = SOLVER_BFS
    THEN [NoLocals EXCEPT !.pc = "bfs", !.algo = algo,
                          !.list = <<start_cell>>]
    ELSE IF algo = SOLVER_DFS
    THEN [NoLocals EXCEPT !.pc = "dfs", !.algo = algo,
                          !.list = <<start_cell>>]
    ELSE IF algo = SOLVER_A_STAR
    THEN [NoLocals EXCEPT
             !.pc = "a_star", !.algo = algo,
             !.list = <<cell_new(start_cell[1], start_cell[2], 1,
                                 cell_distance(start_cell, end_cell),
                                 NULL)>>,
             !.heap = g_malloc0(NoHeap,
                                cell_new(start_cell[1], start_cell[2], 1,
                                         cell_distance(start_cell, end_cell),
                                         NULL))]
    ELSE [NoLocals EXCEPT !.pc = "turn", !.algo = algo, !.cell = start_cell,
                          !.orientation = ORIENTATION_EAST, !.value = 1]

\* maze_solve up to the first test of the strategy's loop: the switch on
\* solver_algorithm (algo is what it reads), _maze_clear_board and the
\* strategy's first statements.
solve_begin(t, algo) ==
    IF algo \notin SolverAlgorithm
    THEN /\ sv' = [sv EXCEPT ![t] = [NoLocals EXCEPT !.pc = "done",
                                                    !.err = -1]]
         /\ IF t = 0 THEN mpc' = "idle" /\ ret' = -1
                     ELSE UNCHANGED <<mpc, ret>>
         /\ UNCHANGED <<board, solver_running, path_len>>
    ELSE LET b == _maze_clear_board(board)
         IN  /\ board' = IF algo = SOLVER_BFS
                         THEN [b EXCEPT ![start_cell].value = 1]
                         ELSE b
             /\ sv' = [sv EXCEPT ![t] = Prologue(algo, b)]
             /\ IF t = 0 THEN mpc' = "solve" /\ ret' = ret
                         ELSE UNCHANGED <<mpc, ret>>
             /\ UNCHANGED <<solver_running, path_len>>

\* The synchronous call, after maze_set_solver_algorithm(maze, algo).
maze_solve(algo) ==
    /\ Called
    /\ Created
    /\ maze_set_solver_algorithm(algo)
    /\ solve_begin(0, algo)
    /\ UNCHANGED solve_frame

\* A worker thread enters maze_solve.
thread_start(t) ==
    /\ t # 0
    /\ sv[t].pc = "begin"
    /\ mpc # "crashed"
    /\ solve_begin(t, solver_algorithm)
    /\ UNCHANGED <<solve_frame, solver_algorithm, calls, noted>>

\* Solver t is inside a strategy and the process is alive.
Runs(t, pc) ==
    /\ sv[t].pc = pc
    /\ mpc # "crashed"
    /\ t = 0 => mpc = "solve"

\* A path walk that does not count the cell it starts from.
EntersPath_zero(t, locals) ==
    /\ Goes(t, [locals EXCEPT !.pc = "path", !.cell = end_cell])
    /\ path_len' = 0

\* maze_set_solution_path begins: cell = end_cell, path_len = 1.
EntersPath(t, locals) ==
    /\ Goes(t, [locals EXCEPT !.pc = "path", !.cell = end_cell])
    /\ path_len' = 1

(* --------------------------- maze_solve_bfs --------------------------- *)
RECURSIVE bfs_neighbours_again(_, _, _, _)
\* A neighbour loop that does not look at the value of the neighbour.
bfs_neighbours_again(b, queue, cell, i) ==
    IF i > 3 THEN [board |-> b, list |-> queue]
    ELSE LET n == Off(cell, At(four_neighbours, i))
             n_cell == maze_get_cell(n[1], n[2])
         IN  IF n_cell = NULL \/ b[n_cell].type = CELL_TYPE_WALL
             THEN bfs_neighbours_again(b, queue, cell, i + 1)
             ELSE bfs_neighbours_again(
                      [b EXCEPT ![n_cell].value = b[cell].value + 1,
                                ![n_cell].type = CELL_TYPE_PATH_HEAD],
                      Append(queue, n_cell), cell, i + 1)


RECURSIVE bfs_neighbours(_, _, _, _)
\* The board and the queue after the neighbours i..3 of cell.
bfs_neighbours(b, queue, cell, i) ==
    IF i > 3 THEN [board |-> b, list |-> queue]
    ELSE LET n == Off(cell, At(four_neighbours, i))
             n_cell == maze_get_cell(n[1], n[2])
         IN  IF n_cell = NULL
                \/ b[n_cell].type = CELL_TYPE_WALL
                \/ b[n_cell].value # 0
             THEN bfs_neighbours(b, queue, cell, i + 1)
             ELSE bfs_neighbours(
                      [b EXCEPT ![n_cell].value = b[cell].value + 1,
                                ![n_cell].type = CELL_TYPE_PATH_HEAD],
                      Append(queue, n_cell), cell, i + 1)

\* One test of the loop of maze_solve_bfs and the round it lets in.
maze_solve_bfs(t) ==
    /\ Runs(t, "bfs")
    /\ LET l == sv[t]
       IN  IF l.list = <<>>
           THEN EntersPath(t, l) /\ board' = board
           ELSE IF solver_cancel
           THEN Returns(t, l, -1) /\ UNCHANGED <<board, path_len>>
           ELSE LET cell == Head(l.list)
                    popped == [l EXCEPT !.list = Tail(l.list), !.cell = cell]
                IN  IF cell = end_cell
                    THEN EntersPath(t, popped) /\ board' = board
                    ELSE LET b == [board EXCEPT
                                      ![cell].type = CELL_TYPE_PATH_VISITED]
                             nb == bfs_neighbours(b, popped.list, cell, 0)
                         IN  /\ board' = nb.board
                             /\ Goes(t, [popped EXCEPT !.list = nb.list])
                             /\ path_len' = path_len
    /\ UNCHANGED <<solve_frame, solver_algorithm, calls, noted>>

(* --------------------------- maze_solve_dfs --------------------------- *)
RECURSIVE dfs_neighbours_orphan(_, _, _, _)
\* A neighbour loop that pushes the neighbour without naming its parent.
dfs_neighbours_orphan(b, stk, cell, i) ==
    IF i > 3 THEN [board |-> b, list |-> stk]
    ELSE LET n == Off(cell, At(four_neighbours, i))
             n_cell == maze_get_cell(n[1], n[2])
         IN  IF n_cell = NULL \/ b[n_cell].type = CELL_TYPE_WALL
             THEN dfs_neighbours_orphan(b, stk, cell, i + 1)
             ELSE dfs_neighbours_orphan(
                      [b EXCEPT ![n_cell].type = CELL_TYPE_PATH_VISITED],
                      <<n_cell>> \o stk, cell, i + 1)


RECURSIVE dfs_neighbours(_, _, _, _)
\* The board and the stack after the neighbours i..3 of cell.
dfs_neighbours(b, stk, cell, i) ==
    IF i > 3 THEN [board |-> b, list |-> stk]
    ELSE LET n == Off(cell, At(four_neighbours, i))
             n_cell == maze_get_cell(n[1], n[2])
         IN  IF n_cell = NULL \/ b[n_cell].type = CELL_TYPE_WALL
             THEN dfs_neighbours(b, stk, cell, i + 1)
             ELSE dfs_neighbours(
                      [b EXCEPT ![n_cell].parent = cell,
                                ![n_cell].type = CELL_TYPE_PATH_VISITED],
                      <<n_cell>> \o stk, cell, i + 1)

\* One test of the loop of maze_solve_dfs and the round it lets in.
maze_solve_dfs(t) ==
    /\ Runs(t, "dfs")
    /\ LET l == sv[t]
       IN  IF l.list = <<>>
           THEN EntersPath(t, l) /\ board' = board
           ELSE IF solver_cancel
           THEN Returns(t, l, -1) /\ UNCHANGED <<board, path_len>>
           ELSE LET cell == Head(l.list)
                    popped == [l EXCEPT !.list = Tail(l.list), !.cell = cell]
                IN  IF board[cell].value # 0
                    THEN /\ Goes(t, popped)
                         /\ UNCHANGED <<board, path_len>>
                    ELSE LET parent == board[cell].parent
                             b == [board EXCEPT
                                      ![cell].value =
                                          IF parent # NULL
                                          THEN board[parent].value + 1
                                          ELSE 1,
                                      ![cell].type = CELL_TYPE_PATH_HEAD]
                         IN  IF cell = end_cell
                             THEN EntersPath(t, popped) /\ board' = b
                             ELSE LET nb == dfs_neighbours(b, popped.list,
                                                           cell, 0)
                                  IN  /\ board' = nb.board
                                      /\ Goes(t, [popped EXCEPT
                                                     !.list = nb.list])
                                      /\ path_len' = path_len
    /\ UNCHANGED <<solve_frame, solver_algorithm, calls, noted>>

(* ------------------------ maze_set_solution_path ---------------------- *)
path_neighbours == <<<<0, -1>>, <<-1, 0>>, <<0, 1>>, <<1, 0>>>>

RECURSIVE lowest_neighbour_first(_, _, _, _)
\* A scan that takes the first valued neighbour it meets, lower or not.
lowest_neighbour_first(from, cell, low_value, i) ==
    IF i > 3 THEN cell
    ELSE LET n == Off(from, At(path_neighbours, i))
             n_cell == maze_get_cell(n[1], n[2])
         IN  IF n_cell # NULL /\ board[n_cell].type # CELL_TYPE_WALL
                /\ board[n_cell].value # 0
             THEN n_cell
             ELSE lowest_neighbour_first(from, cell, low_value, i + 1)


\* A scan that leaps to start_cell from wherever the walk stands.
lowest_neighbour_leap(from, cell, low_value, i) == start_cell


RECURSIVE lowest_neighbour(_, _, _, _)
\* The cell the scan of the neighbours i..3 of (row, col) ends with, cell
\* being the lowest so far.
lowest_neighbour(from, cell, low_value, i) ==
    IF i > 3 THEN cell
    ELSE LET n == Off(from, At(path_neighbours, i))
             n_cell == maze_get_cell(n[1], n[2])
         IN  IF n_cell = NULL \/ board[n_cell].type = CELL_TYPE_WALL
             THEN lowest_neighbour(from, cell, low_value, i + 1)
             ELSE IF board[n_cell].value # 0
                     /\ board[n_cell].value < low_value
             THEN lowest_neighbour(from, n_cell, board[n_cell].value, i + 1)
             ELSE lowest_neighbour(from, cell, low_value, i + 1)

\* One test of the loop of maze_set_solution_path and the round it lets
\* in; its caller returns err = 0 when it returns.
maze_set_solution_path(t) ==
    /\ Runs(t, "path")
    /\ LET l == sv[t]
           cell == l.cell
       IN  IF cell = start_cell
           THEN /\ board' = [[board EXCEPT
                                 ![start_cell].type = CELL_TYPE_START]
                             EXCEPT ![end_cell].type = CELL_TYPE_END]
                /\ Returns(t, l, 0)
                /\ path_len' = path_len
           ELSE IF solver_cancel
           THEN Returns(t, l, 0) /\ UNCHANGED <<board, path_len>>
           ELSE /\ path_len' = IntWrap(path_len + 1)
                /\ board' = [board EXCEPT
                                ![cell].type = CELL_TYPE_PATH_SOLUTION]
                /\ Goes(t, [l EXCEPT !.cell =
                               lowest_neighbour(cell, cell,
                                                board[cell].value, 0)])
    /\ UNCHANGED <<solve_frame, solver_algorithm, calls, noted>>

(* --------------------------- maze_solve_a_star ------------------------ *)
cell_cmp_heuristic(c1, c2) == IF c1.heuristic <= c2.heuristic THEN -1 ELSE 1

cell_cmp_lower_value(c1, c2) ==
    IF cell_cmp(CellOf(c1), CellOf(c2)) = 0 /\ c1.value < c2.value
    THEN 0 ELSE 1

\* The call of a GCompareFunc, which is named as the code names it.
GCompareFunc(func, a, b) ==
    IF func = "cell_cmp" THEN cell_cmp(CellOf(a), CellOf(b))
    ELSE IF func = "cell_cmp_lower_value" THEN cell_cmp_lower_value(a, b)
    ELSE cell_cmp_heuristic(a, b)

\* GLib: whether func(element, data) is 0 for an element of list.
g_list_find_custom(list, data, func) ==
    \E k \in 1 .. Len(list) : GCompareFunc(func, list[k], data) = 0

\* GLib: data goes before the first element e with func(data, e) <= 0, and
\* to the end when there is none.
g_list_insert_sorted(list, data, func) ==
    LET before == {k \in 1 .. Len(list) :
                      GCompareFunc(func, data, list[k]) <= 0}
        at == IF before = {} THEN Len(list) + 1
              ELSE CHOOSE k \in before : \A j \in before : k <= j
    IN  SubSeq(list, 1, at - 1) \o <<data>> \o SubSeq(list, at, Len(list))

RECURSIVE a_star_neighbours(_, _, _, _, _, _)
\* The board, the open list and the heap after the neighbours i..3 of the
\* heap cell.
a_star_neighbours(b, open, closed, cell, i, heap) ==
    IF i > 3 THEN [board |-> b, list |-> open, heap |-> heap]
    ELSE LET n == Off(CellOf(cell), At(four_neighbours, i))
             n_cell == cell_new(n[1], n[2], cell.value + 1,
                                cell.value + 1 + cell_distance(n, end_cell),
                                <<CellOf(cell)>> \o cell.parent)
         IN  IF n[1] < 0 \/ n[1] >= num_rows \/ n[2] < 0 \/ n[2] >= num_cols
             THEN a_star_neighbours(b, open, closed, cell, i + 1, heap)
             ELSE IF cell_is_wall_on(b, n[1], n[2])
             THEN a_star_neighbours(b, open, closed, cell, i + 1, heap)
             ELSE IF g_list_find_custom(closed, n_cell, "cell_cmp")
             THEN a_star_neighbours(b, open, closed, cell, i + 1,
                                    g_free(g_malloc0(heap, n_cell), n_cell))
             ELSE IF ~g_list_find_custom(open, n_cell, "cell_cmp_lower_value")
             THEN a_star_neighbours(
                      [b EXCEPT ![n].type = CELL_TYPE_PATH_HEAD],
                      g_list_insert_sorted(open, n_cell, "cell_cmp_heuristic"),
                      closed, cell, i + 1, g_malloc0(heap, n_cell))
             ELSE a_star_neighbours(b, open, closed, cell, i + 1,
                                    g_free(g_malloc0(heap, n_cell), n_cell))

\* An exit that frees open and forgets closed.
a_star_exit_open(l) == g_list_free_full(l.heap, l.list)


\* The label exit of maze_solve_a_star: open and closed are freed with the
\* heap cells they hold.
a_star_exit(l) == g_list_free_full(g_list_free_full(l.heap, l.list), l.closed)

\* One test of the loop of maze_solve_a_star and the round it lets in.
maze_solve_a_star(t) ==
    /\ Runs(t, "a_star")
    /\ LET l == sv[t]
       IN  IF l.list = <<>>
           THEN Goes(t, [l EXCEPT !.pc = "a_star_path"])
                /\ UNCHANGED <<board, path_len>>
           ELSE IF solver_cancel
           THEN Returns(t, [l EXCEPT !.list = <<>>, !.closed = <<>>,
                                     !.heap = a_star_exit(l)], -1)
                /\ UNCHANGED <<board, path_len>>
           ELSE LET cell == Head(l.list)
                    closed == <<cell>> \o l.closed
                    popped == [l EXCEPT !.list = Tail(l.list),
                                        !.closed = closed, !.node = cell,
                                        !.cell = CellOf(cell)]
                    b == [board EXCEPT
                             ![CellOf(cell)].type = CELL_TYPE_PATH_VISITED]
                IN  IF cell_cmp(CellOf(cell), end_cell) = 0
                    THEN /\ Goes(t, [popped EXCEPT !.pc = "a_star_path"])
                         /\ board' = b
                         /\ path_len' = path_len
                    ELSE LET nb == a_star_neighbours(b, popped.list, closed,
                                                     cell, 0, popped.heap)
                         IN  /\ board' = nb.board
                             /\ Goes(t, [popped EXCEPT !.list = nb.list,
                                                       !.heap = nb.heap])
                             /\ path_len' = path_len
    /\ UNCHANGED <<solve_frame, solver_algorithm, calls, noted>>

\* A marking that leaves out the cell next to the end of the path.
mark_solution_gap(b, path) ==
    [p \in DOMAIN b |->
        IF \E k \in 1 .. Len(path) : k # 2 /\ path[k] = p
        THEN [b[p] EXCEPT !.type = CELL_TYPE_PATH_SOLUTION]
        ELSE b[p]]


\* The board with the cells of path set to PathSolution.
mark_solution(b, path) ==
    [p \in DOMAIN b |->
        IF \E k \in 1 .. Len(path) : path[k] = p
        THEN [b[p] EXCEPT !.type = CELL_TYPE_PATH_SOLUTION]
        ELSE b[p]]

\* After the loop: the parent links of the last cell removed from open are
\* followed and counted, the lists are freed, maze_solve_a_star returns 0.
maze_solve_a_star_path(t) ==
    /\ Runs(t, "a_star_path")
    /\ LET l == sv[t]
           path == <<CellOf(l.node)>> \o l.node.parent
       IN  /\ path_len' = Len(path)
           /\ board' = [[mark_solution(board, path) EXCEPT
                            ![start_cell].type = CELL_TYPE_START]
                        EXCEPT ![end_cell].type = CELL_TYPE_END]
           /\ Returns(t, [l EXCEPT !.list = <<>>, !.closed = <<>>,
                                   !.heap = a_star_exit(l)], 0)
    /\ UNCHANGED <<solve_frame, solver_algorithm, calls, noted>>

(* ------------------------ maze_solve_always_turn ---------------------- *)
left_neighbours == <<<<0, -1>>, <<-1, 0>>, <<0, 1>>, <<1, 0>>>>
right_neighbours == <<<<0, 1>>, <<-1, 0>>, <<0, -1>>, <<1, 0>>>>

\* A scan that takes the last open direction of the four, not the first.
turn_dir_last(b, neighbours, cell, orientation) ==
    LET ok(i) ==
            LET n == Off(cell, At(neighbours, (orientation + i) % 4))
            IN  ~cell_is_wall_on(b, n[1], n[2])
    IN  IF \E i \in 0 .. 3 : ok(i)
        THEN CHOOSE i \in 0 .. 3 : ok(i) /\ \A j \in i + 1 .. 3 : ~ok(j)
        ELSE 4


\* The first i in 0..3 whose neighbour (orientation + i) & 3 of cell is in
\* the grid and no wall on b; 4 when there is none.
turn_dir(b, neighbours, cell, orientation) ==
    LET ok(i) ==
            LET n == Off(cell, At(neighbours, (orientation + i) % 4))
            IN  ~cell_is_wall_on(b, n[1], n[2])
    IN  IF \E i \in 0 .. 3 : ok(i)
        THEN CHOOSE i \in 0 .. 3 : ok(i) /\ \A j \in 0 .. i - 1 : ~ok(j)
        ELSE 4

\* value grows no further than a walk that ends needs (in the code a walk
\* that does not reach end_cell goes on for ever).
WalkCap == 2 * num_rows * num_cols

\* The board with the cells of head_cells set to PathVisited.
reset_heads(b, head_cells) ==
    [p \in DOMAIN b |->
        IF \E k \in 1 .. Len(head_cells) : head_cells[k] = p
        THEN [b[p] EXCEPT !.type = CELL_TYPE_PATH_VISITED]
        ELSE b[p]]

\* One test of the loop of maze_solve_always_turn and the round it lets in.
maze_solve_always_turn(t) ==
    /\ Runs(t, "turn")
    /\ LET l == sv[t]
           cell == l.cell
           neighbours == IF l.algo = SOLVER_ALWAYS_TURN_LEFT
                         THEN left_neighbours ELSE right_neighbours
       IN  IF cell = end_cell
           THEN /\ board' = reset_heads(
                                [board EXCEPT ![cell].value = l.value],
                                l.head_cells)
                /\ EntersPath(t, [l EXCEPT !.value = l.value + 1,
                                           !.head_cells = <<>>])
           ELSE IF solver_cancel
           THEN Returns(t, [l EXCEPT !.head_cells = <<>>], -1)
                /\ UNCHANGED <<board, path_len>>
           ELSE IF cell = NULL
           THEN Crashes(t, l) /\ UNCHANGED <<board, path_len>>
           ELSE LET b1 == [board EXCEPT ![cell].type = CELL_TYPE_PATH_HEAD,
                                        ![cell].value = l.value]
                    pushed == Append(l.head_cells, cell)
                    over == Len(pushed) > HEAD_QUEUE_LENGTH
                    n_cell == Head(pushed)
                    heads == IF over THEN Tail(pushed) ELSE pushed
                    b2 == IF over /\ \A k \in 1 .. Len(heads) :
                                        heads[k] # n_cell
                          THEN [b1 EXCEPT
                                   ![n_cell].type = CELL_TYPE_PATH_VISITED]
                          ELSE b1
                    i == turn_dir(b2, neighbours, cell, l.orientation)
                    n == Off(cell, At(neighbours,
                                      (l.orientation + (IF i < 4 THEN i
                                                        ELSE 3)) % 4))
                IN  /\ l.value < WalkCap
                    /\ board' = b2
                    /\ path_len' = path_len
                    /\ Goes(t, [l EXCEPT
                           !.value = l.value + 1,
                           !.head_cells = heads,
                           !.cell = maze_get_cell(n[1], n[2]),
                           !.orientation =
                               IF i < 4 THEN (l.orientation + i - 1) % 4
                               ELSE l.orientation])
    /\ UNCHANGED <<solve_frame, solver_algorithm, calls, noted>>

\* A step of solver t.
SolverStep(t) ==
    \/ maze_solve_bfs(t)
    \/ maze_solve_dfs(t)
    \/ maze_solve_a_star(t)
    \/ maze_solve_a_star_path(t)
    \/ maze_solve_always_turn(t)
    \/ maze_set_solution_path(t)

(* ----------------------- the solve controller ------------------------- *)
\* The worker g_thread_new creates next; MaxThreads + 1 when none is left.
NewThread ==
    IF \E t \in Workers : sv[t].pc = "none"
    THEN CHOOSE t \in Workers :
            sv[t].pc = "none" /\ \A u \in 1 .. t - 1 : sv[u].pc # "none"
    ELSE MaxThreads + 1

\* maze_solve_thread: no test of solver_running, the handle is overwritten
\* and one more monitor source is added.
maze_solve_thread ==
    LET t == NewThread
    IN  /\ t \in Workers
        /\ solver_cancel' = FALSE
        /\ solver_running' = TRUE
        /\ solver_thread' = t
        /\ sv' = [sv EXCEPT ![t] = [NoLocals EXCEPT !.pc = "begin"]]
        /\ mon' = [mon EXCEPT ![t] = "armed"]
        /\ ret' = 0
        /\ UNCHANGED <<maze_vars, path_len, gen_vars, cb, joined, canceled,
                       mpc>>

\* maze_solve_thread_cancel: the flag, then maze_solve_thread_join, which
\* returns at once without a handle and waits for the thread otherwise.
maze_solve_thread_cancel ==
    /\ solver_cancel' = TRUE
    /\ canceled' = IF solver_running /\ solver_thread # 0
                   THEN canceled \cup {solver_thread} ELSE canceled
    /\ mpc' = IF solver_thread = 0 THEN mpc ELSE "cancel_join"
    /\ UNCHANGED <<maze_vars, solver_running, solver_thread, path_len,
                   gen_vars, sv, mon, cb, joined, ret>>

\* A join that does not wait for the thread to end.
maze_solve_thread_join_nowait ==
    /\ mpc = "cancel_join"
    /\ joined' = [joined EXCEPT ![solver_thread] = @ + 1]
    /\ solver_thread' = 0
    /\ mpc' = "idle"
    /\ UNCHANGED <<maze_vars, solver_running, solver_cancel,
                   solver_algorithm, path_len, gen_vars, sv, mon, cb,
                   canceled, ret, calls, noted>>


\* g_thread_join returns in maze_solve_thread_cancel.
maze_solve_thread_join ==
    /\ mpc = "cancel_join"
    /\ sv[solver_thread].pc = "done"
    /\ joined' = [joined EXCEPT ![solver_thread] = @ + 1]
    /\ solver_thread' = 0
    /\ mpc' = "idle"
    /\ UNCHANGED <<maze_vars, solver_running, solver_cancel,
                   solver_algorithm, path_len, gen_vars, sv, mon, cb,
                   canceled, ret, calls, noted>>

\* What the monitor source t tells the main loop: stay while solver_running.
MonitorReturns(t) ==
    mon' = [mon EXCEPT ![t] = IF solver_running THEN "armed" ELSE "none"]

\* The source of worker t fires: maze_solve_monitor reads the flags and
\* calls the callback; with Solved it goes on to the join, otherwise to its
\* return, which reads solver_running once more.
maze_solve_monitor(t) ==
    /\ mpc = "idle"
    /\ mon[t] = "armed"
    /\ LET reason == IF solver_cancel THEN SOLVER_CB_REASON_CANCELED
                     ELSE IF solver_running THEN SOLVER_CB_REASON_RUNNING
                     ELSE SOLVER_CB_REASON_SOLVED
       IN  /\ cb' = [cb EXCEPT ![t] = @ \cup {reason}]
           /\ IF reason = SOLVER_CB_REASON_SOLVED /\ solver_thread # 0
              THEN /\ mon' = [mon EXCEPT ![t] = "join"]
                   /\ mpc' = "monitor_join"
              ELSE /\ mon' = [mon EXCEPT ![t] = "return"]
                   /\ mpc' = "monitor_return"
    /\ UNCHANGED <<maze_vars, ctl_vars, gen_vars, sv, joined, canceled, ret,
                   calls, noted>>

\* The monitor of worker t returns what solver_running holds by now: a
\* worker may have cleared it since the callback was given its reason.
maze_solve_monitor_return(t) ==
    /\ mpc = "monitor_return"
    /\ mon[t] = "return"
    /\ MonitorReturns(t)
    /\ mpc' = "idle"
    /\ UNCHANGED <<maze_vars, ctl_vars, gen_vars, sv, cb, joined, canceled,
                   ret, calls, noted>>

\* g_thread_join returns in the monitor of worker t, and the monitor too.
maze_solve_monitor_join(t) ==
    /\ mpc = "monitor_join"
    /\ mon[t] = "join"
    /\ sv[solver_thread].pc = "done"
    /\ joined' = [joined EXCEPT ![solver_thread] = @ + 1]
    /\ solver_thread' = 0
    /\ MonitorReturns(t)
    /\ mpc' = "idle"
    /\ UNCHANGED <<maze_vars, solver_running, solver_cancel,
                   solver_algorithm, path_len, gen_vars, sv, cb, canceled,
                   ret, calls, noted>>

\* What the threads and the main loop do by themselves.
Background ==
    \/ \E t \in Workers : thread_start(t) \/ SolverStep(t)
    \/ \E t \in Workers : maze_solve_monitor(t) \/ maze_solve_monitor_join(t)
    \/ \E t \in Workers : maze_solve_monitor_return(t)
    \/ maze_solve_thread_join

(* --------------------------- gtk_maze.c ------------------------------- *)
\* The Solve button, which reads Cancel while a solve runs.
on_solve_clicked(algo) ==
    /\ Called
    /\ Created
    /\ IF solver_running
       THEN maze_solve_thread_cancel /\ UNCHANGED solver_algorithm
       ELSE maze_set_solver_algorithm(algo) /\ maze_solve_thread

(* --------------------------- the clients ------------------------------ *)
\* A client that creates mazes and solves them on its own thread.
NextSolve ==
    \/ \E diff \in BOOLEAN : maze_create(MAZE_MIN_ROWS, MAZE_MAX_COLS, diff)
    \/ maze_create_carve
    \/ maze_create_remove
    \/ maze_clear_board
    \/ \E algo \in SolverAlgorithm : maze_solve(algo)
    \/ SolverStep(0)

SpecSolve == Init /\ [][NextSolve]_vars

\* A client that also moves start_cell and end_cell, as the mouse does.
Relocate ==
    \E row \in -1 .. num_rows, col \in -1 .. num_cols :
        maze_set_start_cell(row, col) \/ maze_set_end_cell(row, col)

Next ==
    \/ \E diff \in BOOLEAN : maze_create(MAZE_MIN_ROWS, MAZE_MIN_COLS, diff)
    \/ maze_create_carve
    \/ maze_create_remove
    \/ Relocate
    \/ maze_clear_board
    \/ \E algo \in SolverAlgorithm : maze_solve(algo)
    \/ SolverStep(0)

Spec == Init /\ [][Next]_vars

\* The window: a maze, the Solve button, the threads and the monitors.
\* maze_create is the call of main and of the New button; the button can be
\* pressed here whenever the main loop is free, and maze_create refuses
\* while solver_running.
NextGui ==
    \/ \E diff \in BOOLEAN : maze_create(MAZE_MIN_ROWS, MAZE_MIN_COLS, diff)
    \/ maze_create_carve
    \/ maze_create_remove
    \/ \E algo \in SolverAlgorithm : on_solve_clicked(algo)
    \/ Background

SpecGui == Init /\ [][NextGui]_vars

\* A client of cmaze.h that starts background solves itself, with the
\* algorithm main has set (A*), and does not run the main loop, so that no
\* monitor fires.
StartThread ==
    /\ Called
    /\ Created
    /\ maze_solve_thread
    /\ UNCHANGED solver_algorithm

NextApi ==
    \/ maze_create(MAZE_MIN_ROWS, MAZE_MIN_COLS, FALSE)
    \/ maze_create_carve
    \/ StartThread
    \/ \E t \in Workers :
          thread_start(t) \/ maze_solve_a_star(t) \/ maze_solve_a_star_path(t)

SpecApi == Init /\ [][NextApi]_vars

SearchAlgorithms == {SOLVER_BFS, SOLVER_DFS, SOLVER_A_STAR}

\* A step of solver t in a strategy that searches: BFS, DFS or A*.
SearchStep(t) ==
    \/ maze_solve_bfs(t)
    \/ maze_solve_dfs(t)
    \/ maze_solve_a_star(t)
    \/ maze_solve_a_star_path(t)
    \/ maze_set_solution_path(t)

\* A client that moves start_cell and end_cell on a plain maze and solves
\* it with the searching strategies; a solve it has called keeps running.
NextSearch ==
    \/ maze_create(MAZE_MIN_ROWS, MAZE_MIN_COLS, FALSE)
    \/ maze_create_carve
    \/ Relocate
    \/ \E algo \in SearchAlgorithms : maze_solve(algo)
    \/ SearchStep(0)

SpecSearch == Init /\ [][NextSearch]_vars /\ WF_vars(SearchStep(0))

\* A client that goes on calling while a background solve (A*) runs.
NextBusy ==
    \/ maze_create(MAZE_MIN_ROWS, MAZE_MIN_COLS, FALSE)
    \/ maze_create_carve
    \/ StartThread
    \/ Relocate
    \/ maze_clear_board
    \/ \E t \in Workers :
          thread_start(t) \/ maze_solve_a_star(t) \/ maze_solve_a_star_path(t)

SpecBusy == Init /\ [][NextBusy]_vars

\* The limits of cmaze.h as they are written there, for the clamp alone.
SOURCE_MIN == 21
SOURCE_MAX == 499

\* The values of rows and cols the clamp is given: every value from below
\* the minimum to above the maximum for rows, the edges for cols.
ClampRows == -2 .. SOURCE_MAX + 3
ClampCols ==
    {-1, 0, SOURCE_MIN - 1, SOURCE_MIN, SOURCE_MIN + 1, SOURCE_MIN + 2,
     SOURCE_MAX - 1, SOURCE_MAX, SOURCE_MAX + 1, 10000}

\* num_rows and num_cols hold the arguments of maze_create.
InitClamp ==
    /\ num_rows \in ClampRows
    /\ num_cols \in ClampCols
    /\ board = <<>>
    /\ board_size = 0
    /\ freed = FALSE
    /\ difficult = FALSE
    /\ solver_running = FALSE
    /\ solver_cancel = FALSE
    /\ solver_thread = 0
    /\ solver_algorithm = SOLVER_A_STAR
    /\ path_len = 0
    /\ start_cell = NULL
    /\ end_cell = NULL
    /\ mpc = "idle"
    /\ ret = 0
    /\ stack = <<>>
    /\ round = 0
    /\ calls = 0
    /\ noted = NULL
    /\ sv = [t \in Solvers |-> NoLocals]
    /\ mon = [t \in Workers |-> "none"]
    /\ cb = [t \in Workers |-> {}]
    /\ joined = [t \in Workers |-> 0]
    /\ canceled = {}

\* The clamp of maze_create with the limits of cmaze.h: num_rows and
\* num_cols become what maze_create stores.
maze_create_clamp ==
    /\ calls = 0
    /\ calls' = 1
    /\ noted' = noted
    /\ num_rows' = Clamp(num_rows, SOURCE_MIN, SOURCE_MAX)
    /\ num_cols' = Clamp(num_cols, SOURCE_MIN, SOURCE_MAX)
    /\ UNCHANGED <<board, board_size, freed, difficult, start_cell, end_cell,
                   ctl_vars, gen_vars, thr_vars, mpc, ret>>

SpecClamp == InitClamp /\ [][maze_create_clamp]_vars

\* The calls the client of SpecResolve makes beyond MaxCalls.
ExtraCalls == 1

\* Init for a client that makes ExtraCalls calls more: two relocations and
\* two solves after maze_create.
InitResolve ==
    /\ num_rows = 0
    /\ num_cols = 0
    /\ board = <<>>
    /\ board_size = 0
    /\ freed = FALSE
    /\ difficult = FALSE
    /\ solver_running = FALSE
    /\ solver_cancel = FALSE
    /\ solver_thread = 0
    /\ solver_algorithm = SOLVER_A_STAR
    /\ path_len = 0
    /\ start_cell = NULL
    /\ end_cell = NULL
    /\ mpc = "idle"
    /\ ret = 0
    /\ stack = <<>>
    /\ round = 0
    /\ calls = -ExtraCalls
    /\ noted = NULL
    /\ sv = [t \in Solvers |-> NoLocals]
    /\ mon = [t \in Workers |-> "none"]
    /\ cb = [t \in Workers |-> {}]
    /\ joined = [t \in Workers |-> 0]
    /\ canceled = {}

\* The client reads maze_get_path_length after a synchronous solve has
\* returned, and keeps it with the algorithm of that solve.
Note ==
    /\ mpc = "idle"
    /\ sv[0].pc = "done"
    /\ noted = NULL
    /\ noted' = <<sv[0].algo, path_len>>
    /\ UNCHANGED <<maze_vars, ctl_vars, gen_vars, thr_vars, mpc, ret, calls>>

\* A client that makes one plain maze, may move start_cell and end_cell
\* before it solves, and then solves the maze again and again; it notes
\* what one of the solves gave.
NextResolve ==
    \/ ~Created /\ maze_create(MAZE_MIN_ROWS, MAZE_MIN_COLS, FALSE)
    \/ maze_create_carve
    \/ sv[0].pc = "none" /\ Relocate
    \/ \E algo \in SolverAlgorithm : maze_solve(algo)
    \/ SolverStep(0)
    \/ Note

SpecResolve == InitResolve /\ [][NextResolve]_vars


\* The wall followers.
TurnAlgorithms == {SOLVER_ALWAYS_TURN_LEFT, SOLVER_ALWAYS_TURN_RIGHT}

\* A step of solver t in a wall follower.
TurnStep(t) == maze_solve_always_turn(t) \/ maze_set_solution_path(t)

\* A client that makes plain mazes and solves them with the wall
\* followers; a solve it has called keeps running.
NextTurn ==
    \/ \E cols \in {MAZE_MIN_COLS, MAZE_MAX_COLS} :
          maze_create(MAZE_MIN_ROWS, cols, FALSE)
    \/ maze_create_carve
    \/ \E algo \in TurnAlgorithms : maze_solve(algo)
    \/ TurnStep(0)

SpecTurn == Init /\ [][NextTurn]_vars /\ WF_vars(TurnStep(0))


\* A client that creates plain mazes of any size, also while a background
\* solve (A*) it has started runs; a second thread it starts is not
\* scheduled.
CreatePlain ==
    \E rows \in ReqRows, cols \in ReqCols : maze_create(rows, cols, FALSE)

NextSeed ==
    \/ CreatePlain
    \/ maze_create_carve
    \/ StartThread
    \/ thread_start(1)
    \/ maze_solve_a_star(1)
    \/ maze_solve_a_star_path(1)

SpecSeed == Init /\ [][NextSeed]_vars


\* The client asks for the background solve to be cancelled.
CancelThread ==
    /\ Called
    /\ Created
    /\ maze_solve_thread_cancel
    /\ UNCHANGED solver_algorithm

\* A client that moves start_cell and end_cell, starts background solves
\* (A*) and cancels them; it does not run the main loop.
NextHeap ==
    \/ maze_create(MAZE_MIN_ROWS, MAZE_MIN_COLS, FALSE)
    \/ maze_create_carve
    \/ Relocate
    \/ StartThread
    \/ CancelThread
    \/ maze_solve_thread_join
    \/ \E t \in Workers :
          thread_start(t) \/ maze_solve_a_star(t) \/ maze_solve_a_star_path(t)

SpecHeap == Init /\ [][NextHeap]_vars


\* A client that solves (A*) on its own thread and in the background, and
\* asks for a cancellation whenever it likes.
NextCancel ==
    \/ maze_create(MAZE_MIN_ROWS, MAZE_MIN_COLS, FALSE)
    \/ maze_create_carve
    \/ maze_solve(SOLVER_A_STAR)
    \/ StartThread
    \/ CancelThread
    \/ maze_solve_thread_join
    \/ thread_start(1)
    \/ \E t \in {0, 1} : maze_solve_a_star(t) \/ maze_solve_a_star_path(t)

SpecCancel == Init /\ [][NextCancel]_vars


\* The values maze_set_solver_algorithm takes: it stores any, the five
\* enumerators and an integer that is none of them.
SOLVER_OUT_OF_RANGE == "OutOfRange"
AnyAlgorithm == SolverAlgorithm \cup {SOLVER_OUT_OF_RANGE}

\* The client sets an algorithm and starts a background solve when none
\* runs.
StartWith(algo) ==
    /\ Called
    /\ Created
    /\ ~solver_running
    /\ maze_set_solver_algorithm(algo)
    /\ maze_solve_thread

\* What the worker threads do.
WorkerStep == \E t \in Workers : thread_start(t) \/ SolverStep(t)

NextAlgo ==
    \/ \E diff \in BOOLEAN : maze_create(MAZE_MIN_ROWS, MAZE_MIN_COLS, diff)
    \/ maze_create_carve
    \/ maze_create_remove
    \/ \E algo \in AnyAlgorithm : StartWith(algo)
    \/ WorkerStep

\* The threads the client has started are scheduled.
SpecAlgo == Init /\ [][NextAlgo]_vars /\ WF_vars(WorkerStep)


(* --------------------------- reference -------------------------------- *)
\* The cells of board b of the given type, and those that are not walls.
CellsOfType(b, type) == {p \in DOMAIN b : b[p].type = type}
OpenCells(b) == {p \in DOMAIN b : b[p].type # CELL_TYPE_WALL}

RECURSIVE Flood(_, _)
\* The cells reached from the cells seen by orthogonal steps through the
\* cells of b that are not walls.
Flood(b, seen) ==
    LET more == {q \in OpenCells(b) \ seen :
                    \E p \in seen : cell_distance(p, q) = 1}
    IN  IF more = {} THEN seen ELSE Flood(b, seen \cup more)

RECURSIVE Hops(_, _, _, _)
\* The least number of such steps from the cells seen (d steps away from
\* where the search began) to target; -1 when there is no route.
Hops(b, seen, target, d) ==
    IF target \in seen THEN d
    ELSE LET more == {q \in OpenCells(b) \ seen :
                         \E p \in seen : cell_distance(p, q) = 1}
         IN  IF more = {} THEN -1 ELSE Hops(b, seen \cup more, target, d + 1)

\* The edges of the graph of open cells, each counted once.
OpenEdges(b) ==
    {e \in OpenCells(b) \X OpenCells(b) :
        cell_distance(e[1], e[2]) = 1 /\ cell_cmp(e[1], e[2]) < 0}

\* end_cell can be reached from start_cell on board b.
EndReachable(b) == end_cell \in Flood(b, {start_cell})

\* maze_create has returned 0 and nothing runs on the main thread.
MazeReady == mpc = "idle" /\ Created /\ ret = 0

\* The main thread is in a synchronous solve of one of the given strategies.
Solving(algos) == mpc = "solve" /\ sv[0].algo \in algos

(* --------------------------- claims ----------------------------------- *)
\* C1: after every successful maze_create, every cell of the num_rows x
\* num_cols grid has a defined type, exactly one cell is Start, exactly one
\* is End, and End is reachable from Start through adjacent non-Wall cells.
C1_CreatedMazeIsWellFormed ==
    MazeReady =>
        /\ DOMAIN board = Pos(num_rows, num_cols)
        /\ \A p \in DOMAIN board : board[p].type \in CellType
        /\ Cardinality(CellsOfType(board, CELL_TYPE_START)) = 1
        /\ Cardinality(CellsOfType(board, CELL_TYPE_END)) = 1
        /\ CellsOfType(board, CELL_TYPE_END)
              \subseteq Flood(board, CellsOfType(board, CELL_TYPE_START))

\* A difficult maze of the widest grid has been created over an older one.
C1_Witness ==
    /\ MazeReady
    /\ difficult
    /\ num_cols = MAZE_MAX_COLS
    /\ calls > 1

\* C2: the open cells of a maze created with difficult = FALSE form a tree:
\* the graph is connected and has one edge less than it has nodes,
\* whatever the carving loop drew.
C2_PlainMazeIsTree ==
    (MazeReady /\ ~difficult) =>
        /\ Flood(board, {start_cell}) = OpenCells(board)
        /\ Cardinality(OpenEdges(board)) = Cardinality(OpenCells(board)) - 1

\* A maze that is not difficult has been created on the widest grid.
C2_Witness ==
    /\ MazeReady
    /\ ~difficult
    /\ num_cols = MAZE_MAX_COLS
    /\ Cardinality(OpenCells(board)) > 2

\* C3: on a maze as maze_create left it, a solve with BFS and a solve with
\* A* both return with path_len the number of cells of a shortest route
\* from start_cell to end_cell (the hop distance plus 1), so they agree.
C3_BfsAndAStarReportShortest ==
    [][(Solving({SOLVER_BFS, SOLVER_A_STAR}) /\ mpc' = "idle")
          => /\ ret' = 0
             /\ path_len' = Hops(board', {start_cell}, end_cell, 0) + 1]_vars

\* A* has returned on a difficult maze that has two routes to end_cell.
C3_Witness ==
    /\ mpc = "idle"
    /\ sv[0].pc = "done"
    /\ sv[0].algo = SOLVER_A_STAR
    /\ difficult
    /\ Cardinality(OpenEdges(board)) >= Cardinality(OpenCells(board))
    /\ CellsOfType(board, CELL_TYPE_PATH_SOLUTION) # {}
    /\ path_len > 2

\* C4: when maze_solve_thread_cancel is called while a background solve
\* runs, the last notification of that run's monitor is Canceled, and the
\* monitor never delivers Solved for it.
C4_CanceledRunEndsCanceled ==
    \A t \in canceled :
        /\ SOLVER_CB_REASON_SOLVED \notin cb[t]
        /\ mon[t] = "none" => SOLVER_CB_REASON_CANCELED \in cb[t]

\* C5: at most one solver execution is active on the maze at any time: a
\* solve request made while an earlier solve has not finished starts no
\* second solver.
C5_OneSolverAtATime ==
    Cardinality({t \in Solvers :
                    sv[t].pc \notin {"none", "begin", "done"}}) <= 1

\* C6: every worker thread created is joined exactly once: the handle
\* solver_thread is never overwritten or dropped while it refers to a
\* thread that is not joined.
C6_EveryThreadJoinedOnce ==
    \A t \in Workers :
        /\ joined[t] <= 1
        /\ sv[t].pc # "none" => (solver_thread = t \/ joined[t] = 1)

\* C7: every solve with BFS, DFS or A* returns, on every maze reached by
\* maze_create and accepted relocations of start_cell and end_cell, also
\* when end_cell cannot be reached from start_cell.
C7_SearchSolveReturns == Solving(SearchAlgorithms) ~> (mpc = "idle")

\* C8: a solve with BFS, DFS or A* whose frontier runs out before it
\* reaches end_cell returns 0 and reports path_len = 0.
C8_NoPathReportsZero ==
    [][(Solving(SearchAlgorithms) /\ mpc' = "idle" /\ ~EndReachable(board'))
          => (ret' = 0 /\ path_len' = 0)]_vars

\* C9: once a maze is created, through relocations, clears and solves and
\* in every state of a running solve, exactly one cell is Start and exactly
\* one is End.
C9_OneStartOneEnd ==
    (Created /\ mpc \in {"idle", "solve"}) =>
        /\ Cardinality(CellsOfType(board, CELL_TYPE_START)) = 1
        /\ Cardinality(CellsOfType(board, CELL_TYPE_END)) = 1

\* C10: no step of a solve run, of any strategy, changes num_rows, num_cols
\* or the set of Wall cells.
C10_SolveKeepsWalls ==
    [][(mpc = "solve" \/ mpc' = "solve")
          => /\ num_rows' = num_rows
             /\ num_cols' = num_cols
             /\ CellsOfType(board', CELL_TYPE_WALL)
                   = CellsOfType(board, CELL_TYPE_WALL)]_vars


\* C11: while solver_running is TRUE, maze_create, maze_set_start_cell and
\* maze_set_end_cell return -1 and maze_clear_board returns; each of these
\* calls leaves num_rows, num_cols, the board, start_cell and end_cell as
\* they were.
C11_BusyCallsAreRefused ==
    [][/\ (solver_running /\ (Relocate \/ Create))
            => /\ ret' = -1
               /\ UNCHANGED <<num_rows, num_cols, board, start_cell, end_cell>>
       /\ (solver_running /\ maze_clear_board)
            => UNCHANGED <<num_rows, num_cols, board, start_cell, end_cell>>
      ]_vars

\* A call was refused while a worker had painted cells of the board.
C11_Witness ==
    /\ solver_running
    /\ ret = -1
    /\ CellsOfType(board, CELL_TYPE_PATH_HEAD) # {}
    /\ \E t \in Workers : sv[t].pc = "a_star"


\* What C12 says of a call on the target <<row, col>> whose outcome is in
\* the primed variables; moved is the endpoint the call moves.
WallTargetRule(row, col, moved) ==
    LET p == <<row, col>>
        interior == /\ 0 < row
                    /\ row < num_rows - 1
                    /\ 0 < col
                    /\ col < num_cols - 1
        open_neighbour ==
            \E q \in DOMAIN board :
                cell_distance(p, q) = 1 /\ board[q].type # CELL_TYPE_WALL
        refused == /\ ret' = -1
                   /\ UNCHANGED <<board, start_cell, end_cell>>
    IN  IF p \notin DOMAIN board THEN refused
        ELSE IF board[p].type # CELL_TYPE_WALL THEN TRUE
        ELSE IF interior THEN refused
        ELSE IF open_neighbour THEN ret' = 0 /\ moved = p
        ELSE refused

\* C12: with no solve running, maze_set_start_cell and maze_set_end_cell on
\* a Wall that is not on the perimeter return -1 and change nothing; on a
\* perimeter Wall they are accepted exactly when one of its neighbours in
\* the grid is not a Wall; coordinates outside the grid return -1 and
\* change nothing.
C12_WallTargets ==
    [][(~solver_running /\ calls' # calls) =>
          \A row \in -1 .. num_rows, col \in -1 .. num_cols :
             /\ maze_set_start_cell(row, col)
                   => WallTargetRule(row, col, start_cell')
             /\ maze_set_end_cell(row, col)
                   => WallTargetRule(row, col, end_cell')]_vars

\* Both endpoints have been moved onto perimeter walls, the second call on
\* a board the first had changed.
C12_Witness ==
    /\ mpc = "idle"
    /\ ret = 0
    /\ start_cell # NULL
    /\ start_cell[1] = 0
    /\ end_cell[2] = 0
    /\ end_cell # <<1, 0>>


\* What C13 says of the dimension maze_create stores for a requested n.
ClampRule(n, stored) ==
    /\ stored % 2 = 1
    /\ stored >= 21
    /\ stored <= 499
    /\ n < 21 => stored = 21
    /\ n > 499 => stored = 499
    /\ (n >= 21 /\ n <= 499 /\ n % 2 = 0) => stored = n + 1
    /\ (n >= 21 /\ n <= 499 /\ n % 2 = 1) => stored = n

\* C13: for every pair (rows, cols) given to maze_create, num_rows and
\* num_cols are odd and within 21..499: a value below 21 becomes 21, one
\* above 499 becomes 499, an even value in the range becomes the value
\* plus 1 and an odd value in the range is kept.
C13_DimensionsClamped ==
    [][maze_create_clamp
          => /\ ClampRule(num_rows, num_rows')
             /\ ClampRule(num_cols, num_cols')]_vars

\* The clamp has stored the largest rows and the smallest bumped cols.
C13_Witness ==
    /\ calls = 1
    /\ board_size = 0
    /\ num_rows = SOURCE_MAX
    /\ num_cols = SOURCE_MIN + 2


\* The strategies that do not promise a shortest route.
WalkAlgorithms ==
    {SOLVER_DFS, SOLVER_ALWAYS_TURN_LEFT, SOLVER_ALWAYS_TURN_RIGHT}

\* C14: on a maze as maze_create left it, a solve with DFS or with a wall
\* follower returns with path_len no less than the number of cells of a
\* shortest route, which is the path_len BFS and A* report (C3).
C14_WalkersNoShorter ==
    [][(Solving(WalkAlgorithms) /\ mpc' = "idle")
          => /\ ret' = 0
             /\ path_len' >= Hops(board', {start_cell}, end_cell, 0) + 1]_vars

\* A wall follower has returned on a difficult maze with a path_len that
\* is more than the shortest route's.
C14_Witness ==
    /\ mpc = "idle"
    /\ sv[0].pc = "done"
    /\ sv[0].algo = SOLVER_ALWAYS_TURN_LEFT
    /\ difficult
    /\ ret = 0
    /\ path_len > Hops(board, {start_cell}, end_cell, 0) + 1


\* The synchronous solve of strategy algo has returned.
Resolved(algo) == mpc = "idle" /\ sv[0].pc = "done" /\ sv[0].algo = algo

\* C15: on one maze, once a solve with a strategy has returned with some
\* path_len, every later solve with the same strategy returns with the
\* same path_len, whatever was solved in between.
C15_ResolveSamePathLen ==
    (noted # NULL /\ Resolved(noted[1])) => path_len = noted[2]

\* The cells of the route a solve has painted on board b, its two ends
\* included.
RouteCells(b) ==
    CellsOfType(b, CELL_TYPE_PATH_SOLUTION) \cup {start_cell, end_cell}

\* The board on which the cells of route are the only open cells.
RouteBoard(b, route) ==
    [p \in DOMAIN b |->
        [b[p] EXCEPT !.type = IF p \in route THEN CELL_TYPE_EMPTY
                              ELSE CELL_TYPE_WALL]]

\* C16: when a solve returns on a maze whose end_cell is reachable from a
\* start_cell that is another cell, the PathSolution cells with start_cell
\* and end_cell are one route of adjacent cells from start_cell to
\* end_cell (walking through them alone, end_cell is as many steps away as
\* there are other cells), and path_len is the number of PathSolution
\* cells plus 2, with every strategy.
C16_RouteIsPathLenCells ==
    [][(/\ mpc = "solve"
        /\ mpc' = "idle"
        /\ start_cell # end_cell
        /\ EndReachable(board))
          => LET route == RouteCells(board')
                 alone == RouteBoard(board', route)
             IN  /\ path_len' =
                       Cardinality(CellsOfType(board',
                                               CELL_TYPE_PATH_SOLUTION)) + 2
                 /\ Flood(alone, {start_cell}) = route
                 /\ Hops(alone, {start_cell}, end_cell, 0)
                       = Cardinality(route) - 1]_vars


\* DFS has returned with a route of five cells or more between a
\* start_cell and an end_cell the client has moved, on a difficult maze.
C16_Witness ==
    /\ mpc = "idle"
    /\ sv[0].pc = "done"
    /\ sv[0].algo = SOLVER_DFS
    /\ difficult
    /\ start_cell # <<1, 0>>
    /\ start_cell # end_cell
    /\ EndReachable(board)
    /\ Cardinality(CellsOfType(board, CELL_TYPE_PATH_SOLUTION)) >= 3
    /\ path_len = Cardinality(RouteCells(board))


\* C17: once maze_create has returned, whatever relocations (accepted or
\* refused) and solves follow, every cell of row 0, column 0, the last
\* row and the last column that is neither start_cell nor end_cell is a
\* Wall.
C17_PerimeterIsWall ==
    (Created /\ mpc \notin {"carve", "remove"}) =>
        \A p \in DOMAIN board :
            (maze_cell_is_perimeter(p) /\ p # start_cell /\ p # end_cell)
                => board[p].type = CELL_TYPE_WALL


\* The main thread comes back from maze_solve_thread_cancel.
CancelReturns == mpc = "cancel_join" /\ mpc' = "idle"

\* C18: maze_solve_thread_cancel, called while a background solve runs,
\* waits for the worker (the call has a thread to join); when it returns
\* solver_thread is NULL, solver_running is FALSE and no worker is inside
\* a strategy; and a worker whose cancel has returned takes no further
\* step, so that it writes no cell afterwards.
C18_CancelJoinsWorker ==
    [][/\ (solver_running /\ calls' # calls /\ solver_cancel')
            => (mpc' = "cancel_join" /\ solver_thread \in Workers)
       /\ CancelReturns
            => /\ solver_thread' = 0
               /\ ~solver_running'
               /\ joined'[solver_thread] = 1
               /\ \A t \in Workers : sv'[t].pc \in {"none", "done"}
       /\ \A t \in canceled :
             ~(mpc = "cancel_join" /\ solver_thread = t)
                => (sv[t].pc = "done" /\ sv'[t] = sv[t])]_vars

\* A cancel has returned after it stopped a wall follower that had
\* painted cells, and nothing has been started since.
C18_Witness ==
    /\ mpc = "idle"
    /\ canceled # {}
    /\ solver_thread = 0
    /\ ~solver_running
    /\ solver_cancel
    /\ \E t \in canceled :
          /\ sv[t].pc = "done"
          /\ sv[t].err = -1
          /\ sv[t].algo = SOLVER_ALWAYS_TURN_LEFT
    /\ CellsOfType(board, CELL_TYPE_PATH_HEAD) # {}


\* Where a solver is inside a loop of a strategy or of a path extraction.
LoopPcs == {"bfs", "dfs", "a_star", "a_star_path", "turn", "path"}

\* C19: every loop of every strategy tests solver_cancel before each of
\* its rounds: a frontier pop of BFS, DFS and A*, a step of a wall
\* follower, a step of the path extraction. So a step a solver takes in a
\* loop while solver_cancel is TRUE runs no round: the solver leaves that
\* loop and no cell becomes PathSolution.
C19_CancelTestedEachRound ==
    [][\A t \in Solvers :
          (solver_cancel /\ sv[t].pc \in LoopPcs /\ sv'[t] # sv[t])
             => /\ sv'[t].pc # sv[t].pc
                /\ CellsOfType(board', CELL_TYPE_PATH_SOLUTION)
                      \subseteq CellsOfType(board, CELL_TYPE_PATH_SOLUTION)]_vars


\* C20, as the code has it: when maze_create has returned, start_cell is
\* (1, 0) and end_cell is (num_rows - 2, num_cols - 1), the cell of the
\* last column, and neither is a Wall.
C20_EndInLastColumn ==
    MazeReady =>
        /\ start_cell = <<1, 0>>
        /\ end_cell = <<num_rows - 2, num_cols - 1>>
        /\ board[start_cell].type # CELL_TYPE_WALL
        /\ board[end_cell].type # CELL_TYPE_WALL

\* C20, as it is stated: when maze_create has returned, start_cell is
\* (1, 0) and end_cell is (num_rows - 2, num_cols - 2), and neither is a
\* Wall.
C20_EndLeftOfLastColumn ==
    MazeReady =>
        /\ start_cell = <<1, 0>>
        /\ end_cell = <<num_rows - 2, num_cols - 2>>
        /\ board[start_cell].type # CELL_TYPE_WALL
        /\ board[end_cell].type # CELL_TYPE_WALL

\* maze_create has returned with a plain maze of the widest grid, whose
\* end_cell is in column 6 and whose cell (3, 5) is an Empty cell.
C20_Witness ==
    /\ MazeReady
    /\ ~difficult
    /\ num_cols = MAZE_MAX_COLS
    /\ end_cell = <<MAZE_MIN_ROWS - 2, MAZE_MAX_COLS - 1>>
    /\ board[end_cell].type = CELL_TYPE_END
    /\ board[<<MAZE_MIN_ROWS - 2, MAZE_MAX_COLS - 2>>].type = CELL_TYPE_EMPTY


\* C21: when a background solve has ended without a cancel, the worker is
\* joined before the callback is called with Solved: at the step that
\* delivers Solved, solver_thread is already NULL.
C21_JoinedBeforeSolved ==
    [][\A t \in Workers :
          (/\ SOLVER_CB_REASON_SOLVED \in cb'[t]
           /\ SOLVER_CB_REASON_SOLVED \notin cb[t])
             => solver_thread = 0]_vars


\* The entry of open that the round of A* about to run removes, and
\* whether an entry of open was made in that round (its parent is the
\* removed entry).
AStarRemoved == Head(sv[0].list)
AStarNew(e) == e.parent = <<CellOf(AStarRemoved)>> \o AStarRemoved.parent

\* A round of A* on the main thread removes an entry from open.
AStarRound ==
    /\ mpc = "solve"
    /\ sv[0].pc = "a_star"
    /\ sv[0].list # <<>>
    /\ sv'[0] # sv[0]

\* C22: every round of A* removes from open an entry whose heuristic is
\* the lowest, and an entry made in the round stands in open after every
\* older entry of the same heuristic, so that of equal entries the oldest
\* is removed first.
C22_LowestThenOldestFirst ==
    [][AStarRound =>
          /\ \A k \in 1 .. Len(sv[0].list) :
                AStarRemoved.heuristic <= sv[0].list[k].heuristic
          /\ \A i, j \in 1 .. Len(sv'[0].list) :
                (/\ i < j
                 /\ sv'[0].list[i].heuristic = sv'[0].list[j].heuristic)
                   => ~(AStarNew(sv'[0].list[i])
                        /\ ~AStarNew(sv'[0].list[j]))]_vars


\* C23: a candidate of A* goes into open only when open holds no entry
\* for its coordinate with a value less than or equal to its own, so open
\* never holds two entries for one coordinate with the same value.
C23_NoEqualEntriesInOpen ==
    \A t \in Solvers :
        sv[t].pc = "a_star" =>
            \A i, j \in 1 .. Len(sv[t].list) :
                (/\ i # j
                 /\ CellOf(sv[t].list[i]) = CellOf(sv[t].list[j]))
                   => sv[t].list[i].value # sv[t].list[j].value


\* Solver t is in the loop of maze_set_solution_path at a cell that is
\* not start_cell and has no open neighbour with a non-zero value below
\* its own.
PathStuck(t) ==
    /\ sv[t].pc = "path"
    /\ sv[t].cell # start_cell
    /\ lowest_neighbour(sv[t].cell, sv[t].cell,
                        board[sv[t].cell].value, 0) = sv[t].cell

\* C24: when the walk of maze_set_solution_path stands on a cell that is
\* not start_cell and has no lower neighbour, the round it runs there is
\* the last: the extraction stops and path_len counts the cells extracted
\* so far, that cell included.
C24_StuckExtractionStops ==
    [][\A t \in Solvers :
          (PathStuck(t) /\ (sv'[t] # sv[t] \/ path_len' # path_len))
             => /\ sv'[t].pc = "done"
                /\ path_len' \in {path_len, path_len + 1}]_vars


\* C25: on a maze that maze_create has made with difficult = FALSE, a
\* solve with always-turn-left or always-turn-right reaches end_cell and
\* returns, without any cancel.
C25_WallFollowerReturns ==
    (Solving(TurnAlgorithms) /\ ~difficult) ~> (mpc = "idle" /\ ret = 0)

\* Always-turn-right has returned from a plain maze of the widest grid
\* after a walk that went into dead ends: it gave more values than the
\* route has cells.
C25_Witness ==
    /\ mpc = "idle"
    /\ sv[0].pc = "done"
    /\ sv[0].algo = SOLVER_ALWAYS_TURN_RIGHT
    /\ ~difficult
    /\ num_cols = MAZE_MAX_COLS
    /\ ret = 0
    /\ ~solver_cancel
    /\ board[end_cell].value > path_len


\* The cells of the board that are Walls, and the cells a step changes.
WallCells(b) == CellsOfType(b, CELL_TYPE_WALL)
ChangedCells == {p \in DOMAIN board : board'[p] # board[p]}

\* Cell p is inside the perimeter and, of its four neighbours, the Walls
\* are the two above and below it or the two left and right of it.
BetweenTwoWalls(p) ==
    LET up == <<p[1] - 1, p[2]>>
        down == <<p[1] + 1, p[2]>>
        left == <<p[1], p[2] - 1>>
        right == <<p[1], p[2] + 1>>
    IN  /\ p[1] \in 1 .. num_rows - 2
        /\ p[2] \in 1 .. num_cols - 2
        /\ \/ {up, down} \subseteq WallCells(board)
              /\ {left, right} \cap WallCells(board) = {}
           \/ {left, right} \subseteq WallCells(board)
              /\ {up, down} \cap WallCells(board) = {}

\* The open cells of a carved tree: the cells with odd coordinates, one
\* passage less than there are such cells, start_cell and end_cell.
TreeCells == 2 * ((num_rows - 1) \div 2) * ((num_cols - 1) \div 2) + 1

Removable ==
    {p \in (1 .. num_rows - 2) \X (1 .. num_cols - 2) :
        RemovableWall(p[1], p[2])}

\* The passage walls a carved tree of R x C leaves standing: there are
\* kr * (kc - 1) + kc * (kr - 1) places for a passage between the
\* kr * kc cells of odd coordinates, and the tree opens kr * kc - 1.
WallsLeft(R, C) == ((R - 1) \div 2 - 1) * ((C - 1) \div 2 - 1)

\* The sizes the clamp of the source lets through (21, 23, ... 499), and
\* whether each of them leaves more walls than MAX(R, C) - 1 rounds take
\* away at two a round.
SourceSizes == {n \in SOURCE_MIN .. SOURCE_MAX : n % 2 = 1}
SourceSizesHaveWalls ==
    \A R \in SourceSizes, C \in SourceSizes :
        WallsLeft(R, C) > 2 * (MAX(R, C) - 1)

\* Before every draw of the removal loop a removable wall exists: a round
\* takes at most two of them away from the WallsLeft the carving left.
RemovableWallExists ==
    mpc = "remove" =>
       /\ round < RemovalRounds
       /\ Removable # {}
       /\ Cardinality(Removable) >= WallsLeft(num_rows, num_cols) - 2 * round

DfsPops(t) ==
    /\ sv[t].pc = "dfs"
    /\ sv[t].list # <<>>
    /\ ~solver_cancel
    /\ sv'[t] # sv[t]

\* The cells the step puts on the stack of solver t, above what the pop
\* left of it.
DfsPushed(t) ==
    SubSeq(sv'[t].list, 1, Len(sv'[t].list) - (Len(sv[t].list) - 1))

Adjacent(p, q) ==
    \/ p[1] = q[1] /\ (p[2] - q[2]) \in {-1, 1}
    \/ p[2] = q[2] /\ (p[1] - q[1]) \in {-1, 1}

\* C28: a pop of maze_solve_dfs that finds its cell without a value gives
\* it one (1 to start_cell, to any other cell the value of the valued
\* neighbour that pushed it last, plus 1) and every cell it pushes names
\* it as the pusher; a pop that finds its cell valued changes no value
\* and no type and pushes nothing; no pop changes a value that is not 0.
C28_DfsFirstPopAssigns ==
    [][\A t \in Solvers : DfsPops(t) =>
          LET cell == Head(sv[t].list)
              pusher == board[cell].parent
          IN  /\ Len(sv'[t].list) >= Len(sv[t].list) - 1
              /\ SubSeq(sv'[t].list, Len(DfsPushed(t)) + 1, Len(sv'[t].list))
                    = Tail(sv[t].list)
              /\ \A p \in DOMAIN board :
                    board[p].value # 0 => board'[p].value = board[p].value
              /\ board[cell].value # 0 =>
                    /\ DfsPushed(t) = <<>>
                    /\ \A p \in DOMAIN board :
                          board'[p].type = board[p].type
              /\ board[cell].value = 0 =>
                    /\ cell = start_cell => board'[cell].value = 1
                    /\ cell # start_cell =>
                          /\ pusher # NULL
                          /\ Adjacent(pusher, cell)
                          /\ board[pusher].value # 0
                          /\ board'[cell].value = board[pusher].value + 1
                    /\ \A p \in DOMAIN board \ {cell} :
                          board'[p].value = board[p].value
                    /\ \A i \in 1 .. Len(DfsPushed(t)) :
                          LET q == DfsPushed(t)[i]
                          IN  /\ Adjacent(cell, q)
                              /\ board[q].type # CELL_TYPE_WALL
                              /\ board'[q].parent = cell
      ]_vars

\* A cell that has its value is on the stack of a depth-first search of a
\* maze with a cycle, twice, and is the next to be popped.
C28_Witness ==
    /\ mpc = "solve"
    /\ sv[0].pc = "dfs"
    /\ difficult
    /\ sv[0].list # <<>>
    /\ board[Head(sv[0].list)].value # 0
    /\ \E i \in 2 .. Len(sv[0].list) : sv[0].list[i] = Head(sv[0].list)


\* Solver t is inside maze_solve_bfs or the path walk that ends it.
BfsRuns(t) ==
    /\ sv[t].algo = SOLVER_BFS
    /\ sv[t].pc \in {"bfs", "path"}
    /\ t = 0 => mpc = "solve"

\* Every cell with a value v is v - 1 steps from start_cell, by the
\* shortest way through cells that are not walls.
BfsValuesAreHops ==
    \A t \in Solvers : BfsRuns(t) =>
       \A p \in DOMAIN board :
          board[p].value # 0 =>
             Hops(board, {start_cell}, p, 0) = board[p].value - 1

\* A dequeue of maze_solve_bfs: the cells it enqueues had no value (none
\* was in the queue before, none is enqueued twice), and all that is left
\* in the queue has a value no lower than the dequeued cell's, in order.
BfsDequeue(t) ==
    (/\ sv[t].pc = "bfs"
     /\ sv[t].list # <<>>
     /\ ~solver_cancel
     /\ sv'[t] # sv[t])
    => LET cell == Head(sv[t].list)
           rest == Tail(sv[t].list)
           queue == sv'[t].list
       IN  /\ Len(queue) >= Len(rest)
           /\ SubSeq(queue, 1, Len(rest)) = rest
           /\ \A i \in Len(rest) + 1 .. Len(queue) :
                 /\ board[queue[i]].value = 0
                 /\ board'[queue[i]].value # 0
           /\ \A i, j \in 1 .. Len(queue) : i # j => queue[i] # queue[j]
           /\ \A p \in DOMAIN board :
                 board[p].value # 0 => board'[p].value = board[p].value
           /\ \A i \in 1 .. Len(queue) :
                 board'[queue[i]].value >= board[cell].value
           /\ \A i \in 1 .. Len(queue) - 1 :
                 board'[queue[i]].value <= board'[queue[i + 1]].value

\* C29: all through a breadth-first search every cell with a value v
\* lies v - 1 steps from start_cell (whose value is 1), a cell is
\* enqueued once at most, and the values of the dequeued cells never go
\* down.
C29_BfsValuesAreDistances ==
    /\ []BfsValuesAreHops
    /\ [][\A t \in Solvers : BfsDequeue(t)]_vars

\* A breadth-first search of a maze with a cycle is under way: two cells
\* wait in the queue and a cell four steps from start_cell has its value.
C29_Witness ==
    /\ mpc = "solve"
    /\ sv[0].pc = "bfs"
    /\ sv[0].algo = SOLVER_BFS
    /\ difficult
    /\ Len(sv[0].list) >= 2
    /\ \E p \in DOMAIN board : board[p].value = 5


\* C30: maze_create frees the board and allocates another only when the
\* grid it is asked for, after clamping, has more cells than the board
\* it holds has room for; a board with room enough is kept.
C30_BoardFreedOnlyWhenTooSmall ==
    [][(calls' # calls /\ freed') => board_size < num_rows' * num_cols']_vars


\* The draws of random() tried with the sizes of the source: every
\* remainder of every divisor num_rows - 2 is among them.
SeedDraws == 0 .. 2 * SOURCE_MAX

\* p has odd coordinates inside the perimeter of an R x C grid.
OddInside(p, R, C) ==
    /\ p[1] % 2 = 1
    /\ p[2] % 2 = 1
    /\ p[1] \in 1 .. R - 2
    /\ p[2] \in 1 .. C - 2

\* With the sizes the clamp of the source lets through, every draw gives
\* a seed of odd coordinates inside the perimeter.
SourceSeedsAreOdd ==
    \A R \in SourceSizes : \A x \in SeedDraws :
        /\ OddInside(SeedCell(x, 0, R, SOURCE_MIN), R, SOURCE_MIN)
        /\ OddInside(SeedCell(0, x, SOURCE_MIN, R), SOURCE_MIN, R)

\* C31: whatever the sizes asked for and whatever random() draws, a
\* maze_create that finds no solve running starts carving from a seed of
\* odd row and odd column inside the grid, which is not a Wall; it
\* returns -1 only when a solve is running, and then changes nothing.
C31_SeedIsNeverAWall ==
    /\ [](board_size = 0 => SourceSeedsAreOdd)
    /\ [][CreatePlain =>
            IF solver_running
            THEN ret' = -1 /\ UNCHANGED <<maze_vars, mpc>>
            ELSE /\ mpc' = "carve"
                 /\ Len(stack') = 1
                 /\ OddInside(stack'[1], num_rows', num_cols')
                 /\ board'[stack'[1]].type = CELL_TYPE_EMPTY
                 /\ board'[stack'[1]].value = 1
                 /\ ret' = ret]_vars

\* maze_create has seeded the carving of the widest grid in its last
\* odd cell, and an earlier call came back with -1 from a running solve.
C31_Witness ==
    /\ mpc = "carve"
    /\ stack = <<<<num_rows - 2, num_cols - 2>>>>
    /\ num_cols = MAZE_MAX_COLS
    /\ board[stack[1]].type = CELL_TYPE_EMPTY
    /\ ret = -1


\* The elements of a list, as a set.
Elements(list) == {list[k] : k \in 1 .. Len(list)}

\* Solver t is inside maze_solve_a_star.
AStarRuns(t) == sv[t].pc \in {"a_star", "a_star_path"}

\* The heap cell a parent link of node points to is in closed.
ParentInClosed(t, node) ==
    \/ node.parent = NULL
    \/ \E c \in Elements(sv[t].closed) :
          node.parent = <<CellOf(c)>> \o c.parent

\* C32: while maze_solve_a_star runs, the heap cells that are live are
\* those of open and closed, each in one place of one list; every parent
\* link points to a cell of closed, and so does the cell the route starts
\* from; no g_free is given a cell that is not live.  When the function
\* has returned, by whichever way, no heap cell is live.
C32_AStarHeapIsBalanced ==
    \A t \in Solvers :
       /\ sv[t].heap.faults = 0
       /\ AStarRuns(t) =>
             /\ sv[t].heap.live
                   = Elements(sv[t].list) \cup Elements(sv[t].closed)
             /\ Cardinality(sv[t].heap.live)
                   = Len(sv[t].list) + Len(sv[t].closed)
             /\ \A node \in sv[t].heap.live : ParentInClosed(t, node)
             /\ sv[t].pc = "a_star_path" =>
                   sv[t].node \in Elements(sv[t].closed)
       /\ ~AStarRuns(t) => sv[t].heap.live = {}

\* A cancelled background A* has returned -1 after it had opened cells.
C32_Witness ==
    /\ sv[1].pc = "done"
    /\ sv[1].algo = SOLVER_A_STAR
    /\ sv[1].err = -1
    /\ 1 \in canceled
    /\ sv[1].heap = NoHeap
    /\ sv[1].cell \notin {NULL, start_cell, end_cell}


\* The reasons that end a run for the callback.
TerminalReasons == {SOLVER_CB_REASON_SOLVED, SOLVER_CB_REASON_CANCELED}

\* C33: the monitor of every run gives the callback one terminal reason,
\* Solved or Canceled, and polls no more: a monitor that is still to fire
\* has given none, and a monitor that has stopped has given exactly one.
C33_OneTerminalNotification ==
    \A t \in Workers :
       /\ mon[t] = "armed" => cb[t] \cap TerminalReasons = {}
       /\ (mon[t] = "none" /\ sv[t].pc # "none") =>
             Cardinality(cb[t] \cap TerminalReasons) = 1


\* Solver t is inside a strategy.
InStrategy(l) == l.pc \in {"bfs", "dfs", "a_star", "turn"}

\* C34: a solve run enters its strategy with solver_cancel FALSE, unless
\* the cancellation was asked for that very run after maze_solve_thread
\* had started it: a cancellation of an earlier run, or one asked for
\* while nothing ran, is not seen by a later run of maze_solve or of
\* maze_solve_thread.
C34_RunStartsUncancelled ==
    [][\A t \in Solvers :
          (~InStrategy(sv[t]) /\ InStrategy(sv'[t]) /\ solver_cancel')
             => t \in canceled]_vars


\* C35: whatever value maze_set_solver_algorithm has stored, a run that
\* maze_solve_thread has started comes to leave solver_running FALSE.
C35_BackgroundRunEnds == solver_running ~> ~solver_running


\* C36: the board has room for the grid, and no solver, generator or
\* accessor goes through a cell pointer that maze_get_cell returned as
\* NULL for a row or column outside the grid.
C36_CellAccessInsideBoard ==
    /\ board_size >= num_rows * num_cols
    /\ DOMAIN board \subseteq Pos(num_rows, num_cols)
    /\ mpc # "crashed"
    /\ \A t \in Solvers : sv[t].pc # "crashed"


\* Solver t runs BFS or DFS, or the path walk after it, and end_cell has
\* its value.
EndValued(t) ==
    /\ sv[t].algo \in {SOLVER_BFS, SOLVER_DFS}
    /\ sv[t].pc \in {"bfs", "dfs", "path"}
    /\ t = 0 => mpc = "solve"
    /\ board[end_cell].value # 0

\* Every cell with a value v above 1 has next to it a cell that is not a
\* wall and has the value v - 1.
ValuesStepDown ==
    \A p \in DOMAIN board :
       board[p].value > 1 =>
          \E q \in OpenCells(board) :
             Adjacent(p, q) /\ board[q].value = board[p].value - 1

\* The cells counted so far and the steps the value of the walk's cell
\* still allows are no more than the value of end_cell, and as many with
\* BFS.
PathWithinValue(t) ==
    LET most == path_len + board[sv[t].cell].value - 1
    IN  /\ most <= board[end_cell].value
        /\ sv[t].algo = SOLVER_BFS => most = board[end_cell].value

\* C37: once BFS or DFS has given end_cell its value, every cell with a
\* value v > 1 has a neighbour that is not a wall with value v - 1; every
\* step of the path walk goes to a lower value, and the walk arrives at
\* start_cell with path_len at most the value of end_cell, and equal to
\* it with BFS.
C37_PathDescendsFromEnd ==
    /\ [](\A t \in Solvers : EndValued(t) =>
             /\ ValuesStepDown
             /\ sv[t].pc = "path" => PathWithinValue(t))
    /\ [][\A t \in Solvers :
             (EndValued(t) /\ sv[t].pc = "path" /\ sv'[t] # sv[t]) =>
                /\ sv'[t].pc = "path" =>
                      board[sv'[t].cell].value < board[sv[t].cell].value
                /\ sv'[t].pc = "done" =>
                      /\ sv[t].cell = start_cell
                      /\ path_len' <= board[end_cell].value
                      /\ sv[t].algo = SOLVER_BFS =>
                            path_len' = board[end_cell].value]_vars

\* A depth-first search of a maze with a cycle has walked back from
\* end_cell to start_cell by a way shorter than the one it came.
C37_Witness ==
    /\ mpc = "idle"
    /\ sv[0].pc = "done"
    /\ sv[0].algo = SOLVER_DFS
    /\ sv[0].err = 0
    /\ difficult
    /\ board[end_cell].value > path_len
    /\ path_len > 1

====
